---- MODULE Spec2Model ----
(***************************************************************************)
(* A model of src/src/runner.js (BenchmarkRunner): the scoring function,   *)
(* the reply parser, the provider client, the run() loop and aggregate().  *)
(*                                                                         *)
(* Strings are sequences of one-character strings.  A reply text is a      *)
(* sequence of lines (the result of raw.split('\n')); a line is a sequence *)
(* of characters in which each of the three markers ANSWER:, CONFIDENCE:,  *)
(* EVIDENCE: is one atomic symbol.  JavaScript numbers that are fractions  *)
(* are exact rationals [n, d]; NaN is [n |-> 0, d |-> 0].                   *)
(*                                                                         *)
(* Not modelled: file reads that fail (loadTasks, loadPage,                *)
(* loadGroundTruth) and a ground truth file without an entry for a task.   *)
(***************************************************************************)
EXTENDS Integers, Sequences, FiniteSets, TLC

\* ------------------------------------------------------------- bounds
MaxStrLen == 3
MaxList == 2
MaxRuns == 2
MaxTrials == 4
MaxAggCalls == 2

\* ------------------------------------------------------------ strings
Chars == {"a", "A", ",", " "}

RECURSIVE StringsUpTo(_)
StringsUpTo(n) ==
  IF n = 0 THEN {<<>>}
  ELSE LET S == StringsUpTo(n - 1)
       IN  S \cup {Append(s, c) : s \in {x \in S : Len(x) = n - 1}, c \in Chars}

LowerChar(c) == IF c = "A" THEN "a" ELSE c

ToLowerCase(s) == [i \in 1..Len(s) |-> LowerChar(s[i])]

RECURSIVE TrimStart(_)
TrimStart(s) == IF s # <<>> /\ Head(s) = " " THEN TrimStart(Tail(s)) ELSE s

RECURSIVE TrimEnd(_)
TrimEnd(s) ==
  IF s # <<>> /\ s[Len(s)] = " " THEN TrimEnd(SubSeq(s, 1, Len(s) - 1)) ELSE s

Trim(s) == TrimEnd(TrimStart(s))

Includes(s, t) ==
  \E k \in 0..(Len(s) - Len(t)) : SubSeq(s, k + 1, k + Len(t)) = t

\* s.split(','): the pieces between the separators, in order; never empty.
RECURSIVE Split(_, _)
Split(s, sep) ==
  IF \A i \in 1..Len(s) : s[i] # sep THEN <<s>>
  ELSE LET k == CHOOSE i \in 1..Len(s) :
                  s[i] = sep /\ \A j \in 1..(i - 1) : s[j] # sep
       IN  <<SubSeq(s, 1, k - 1)>> \o Split(SubSeq(s, k + 1, Len(s)), sep)

\* new Set(array)
SetOf(seq) == {seq[i] : i \in 1..Len(seq)}

\* ---------------------------------------------------------- numbers
RECURSIVE Gcd(_, _)
Gcd(a, b) == IF b = 0 THEN a ELSE Gcd(b, a % b)

NaN == [n |-> 0, d |-> 0]
IsNaN(x) == x.d = 0
Rat(n, d) == LET g == Gcd(n, d) IN [n |-> n \div g, d |-> d \div g]
Zero == Rat(0, 1)
Half == Rat(1, 2)
One == Rat(1, 1)

\* a / b on non-negative operands; 0 / 0 is NaN (x / 0 with x > 0 is Infinity
\* and cannot arise: a set's size bounds the size of the intersection).
RatDiv(a, b) == IF b = 0 THEN NaN ELSE Rat(a, b)
RatAdd(x, y) ==
  IF IsNaN(x) \/ IsNaN(y) THEN NaN ELSE Rat(x.n * y.d + y.n * x.d, x.d * y.d)
RatMul(x, y) == IF IsNaN(x) \/ IsNaN(y) THEN NaN ELSE Rat(x.n * y.n, x.d * y.d)
RatQuot(x, y) ==
  IF IsNaN(x) \/ IsNaN(y) \/ y.n = 0 THEN NaN ELSE Rat(x.n * y.d, x.d * y.n)
RatLeq(x, y) == x.n * y.d <= y.n * x.d
\* x || 0
OrZero(x) == IF IsNaN(x) \/ x.n = 0 THEN Zero ELSE x

\* parseFloat of a string over Chars: no digit, sign or dot can start it.
ParseFloat(s) == NaN

\* ------------------------------------------------------ scoreResponse
ScoringTypes ==
  {"element_id", "text_match", "numeric", "precision_recall", "other", "undefined"}

\* A variant without the case folding.
NormalizeTrimOnly(s) == Trim(s)

\* answer and truth (lines 121-122)
Normalize(s) == Trim(ToLowerCase(s))

ScorePrecisionRecall(answer, truth) ==
  LET predSet == {Trim(x) : x \in SetOf(Split(answer, ","))}
      truthSet == {Trim(x) : x \in SetOf(Split(truth, ","))}
      intersection == {x \in predSet : x \in truthSet}
      precision == OrZero(RatDiv(Cardinality(intersection), Cardinality(predSet)))
      recall == OrZero(RatDiv(Cardinality(intersection), Cardinality(truthSet)))
      sum == RatAdd(precision, recall)
  IN  IF sum.n > 0
      THEN RatQuot(RatMul(Rat(2, 1), RatMul(precision, recall)), sum)
      ELSE Zero

scoreResponse(parsedAnswer, groundTruth, scoringType) ==
  LET answer == Normalize(parsedAnswer)
      truth == Normalize(groundTruth)
  IN  CASE scoringType = "element_id" -> IF answer = truth THEN One ELSE Zero
        [] scoringType = "text_match" ->
             IF answer = truth THEN One
             ELSE IF Includes(answer, truth) \/ Includes(truth, answer) THEN Half
             ELSE Zero
        [] scoringType = "numeric" ->
             LET a == ParseFloat(answer)
                 t == ParseFloat(truth)
             IN  IF ~IsNaN(a) /\ ~IsNaN(t) /\ a = t THEN One ELSE Zero
        [] scoringType = "precision_recall" -> ScorePrecisionRecall(answer, truth)
        [] OTHER -> IF answer = truth THEN One ELSE Zero

\* ------------------------------------------------------ parseResponse
\* parseInt of a trimmed string: the value of its leading digits, else NaN.
\* The replies of this model hold the one digit "7".
ParseInt(s) == IF s # <<>> /\ Head(s) = "7" THEN Rat(7, 1) ELSE NaN

\* One iteration of the for loop over lines (lines 107-115).
ParseLine(result, line) ==
  IF line # <<>> /\ Head(line) = "ANSWER:"
  THEN [result EXCEPT !.answer = Trim(Tail(line))]
  ELSE IF line # <<>> /\ Head(line) = "CONFIDENCE:"
  THEN [result EXCEPT !.confidence = OrZero(ParseInt(Trim(Tail(line))))]
  ELSE IF line # <<>> /\ Head(line) = "EVIDENCE:"
  THEN [result EXCEPT !.evidence = Trim(Tail(line))]
  ELSE result

RECURSIVE ParseLines(_, _)
ParseLines(result, lines) ==
  IF lines = <<>> THEN result
  ELSE ParseLines(ParseLine(result, Head(lines)), Tail(lines))

\* raw is a reply text that is not null (raw.split throws on null).
parseResponse(raw) ==
  ParseLines([answer |-> <<>>, confidence |-> Zero, evidence |-> <<>>], raw)

\* ------------------------------------------------------- the registry
MODELS ==
  [k \in {"gpt-4o", "gpt-4o-mini", "claude-sonnet", "claude-haiku"} |->
     IF k \in {"gpt-4o", "gpt-4o-mini"} THEN "openai" ELSE "anthropic"]

\* Object.keys(MODELS), in insertion order.
ModelKeys == <<"gpt-4o", "gpt-4o-mini", "claude-sonnet", "claude-haiku">>

FORMATS == <<"sifr", "html_raw", "html_clean", "axtree">>

DefaultPages == <<"product_page">>

DefaultRuns == 3

\* ----------------------------------------------- the run's environment
\* The identifiers a configuration may name; "llama" is not in MODELS.
PageIds == {"product_page", "login"}
ModelIds == {"gpt-4o", "claude-haiku", "llama"}
FormatIds == {"sifr", "axtree"}

\* benchmark/tasks.json
TaskPool ==
  { [id |-> "t1", scoring |-> "element_id"],
    [id |-> "t2", scoring |-> "text_match"] }

\* benchmark/ground-truth/<page>.json: groundTruth.tasks[id].answer
GroundTruth(pageId) ==
  [id \in {"t1", "t2"} |->
     IF id = "t1" THEN [answer |-> <<"A">>]
     ELSE IF pageId = "login" THEN [answer |-> <<"a", " ", "a">>]
     ELSE [answer |-> <<"a", "a">>]]

ReplyFull ==
  << <<"ANSWER:", " ", "a">>,
     <<"CONFIDENCE:", " ", "7">>,
     <<"EVIDENCE:", "a", " ">> >>

ReplyNoMarkers == << <<"a", "a">> >>

\* What one call of the provider's SDK does: it returns a payload (whose
\* text may be null) or throws an error with a message (which may be empty);
\* ms is the time it took.
ProviderOutcomes ==
  { [kind |-> "return", hasText |-> TRUE, text |-> ReplyFull,
     input |-> 1, output |-> 1, total |-> 2, ms |-> 1, message |-> ""],
    [kind |-> "return", hasText |-> TRUE, text |-> ReplyNoMarkers,
     input |-> 3, output |-> 2, total |-> 5, ms |-> 4, message |-> ""],
    [kind |-> "return", hasText |-> FALSE, text |-> <<>>,
     input |-> 3, output |-> 0, total |-> 3, ms |-> 1, message |-> ""],
    [kind |-> "throw", hasText |-> FALSE, text |-> <<>>,
     input |-> 0, output |-> 0, total |-> 0, ms |-> 4, message |-> "timeout"],
    [kind |-> "throw", hasText |-> FALSE, text |-> <<>>,
     input |-> 0, output |-> 0, total |-> 0, ms |-> 1, message |-> ""] }

\* Sequences without repetition over S, of length at most n.
DistinctSeqs(S, n) ==
  {s \in UNION {[1..k -> S] : k \in 0..n} :
     \A i, j \in 1..Len(s) : i < j => s[i] # s[j]}

\* An option that the command line may leave undefined.
Undefined == [defined |-> FALSE, value |-> <<>>]
Some(v) == [defined |-> TRUE, value |-> v]

UndefinedRuns == [defined |-> FALSE, value |-> 0]

\* x || d for a list option: a list, even an empty one, is truthy.
ListOr(opt, d) == IF opt.defined THEN opt.value ELSE d
\* config.runs || 3: 0 (and NaN) is falsy.
RunsOr(opt, d) == IF opt.defined /\ opt.value # 0 THEN opt.value ELSE d

\* --------------------------------------------------------- the state
VARIABLES
  config,        \* this.config: pages, models, formats, runs (each optional)
  tasks,         \* the content of benchmark/tasks.json
  pc,            \* where run() is: start, loop, inflight, pause, done, aborted
  pos,           \* the loop variables: indices into pages, models, formats, tasks; r
  results,       \* this.results
  inFlight,      \* provider requests issued and not yet settled
  dispatched,    \* provider requests issued so far
  pauses,        \* inter-request pauses that have elapsed so far
  log,           \* what the provider did on each request, in order
  stats,         \* the rows the last aggregate() returned
  prevStats,     \* the rows the call before it returned
  aggCalls,      \* calls of aggregate() so far
  resultsBefore, \* this.results as it was when the last aggregate() began
  sc             \* the scoring harness: one call of scoreResponse

vars ==
  <<config, tasks, pc, pos, results, inFlight, dispatched, pauses, log,
    stats, prevStats, aggCalls, resultsBefore, sc>>

runVars ==
  <<config, tasks, pc, pos, results, inFlight, dispatched, pauses, log,
    stats, prevStats, aggCalls, resultsBefore>>

\* The locals of run() (lines 179-182).
pages == ListOr(config.pages, DefaultPages)
models == ListOr(config.models, ModelKeys)
formats == ListOr(config.formats, FORMATS)
runs == RunsOr(config.runs, DefaultRuns)

Configs ==
  [ pages : {Undefined} \cup {Some(l) : l \in DistinctSeqs(PageIds, MaxList)},
    models : {Undefined} \cup {Some(l) : l \in DistinctSeqs(ModelIds, MaxList)},
    formats : {Undefined} \cup {Some(l) : l \in DistinctSeqs(FormatIds, MaxList)},
    runs : {UndefinedRuns} \cup {Some(n) : n \in 0..MaxRuns} ]

\* The number of leaf combinations of the nested loops of run().
Combinations(cfg, tk) ==
  Len(ListOr(cfg.pages, DefaultPages)) * Len(ListOr(cfg.models, ModelKeys))
    * Len(ListOr(cfg.formats, FORMATS)) * Len(tk) * RunsOr(cfg.runs, DefaultRuns)

NoStats == <<>>
IdleScore == [answer |-> <<>>, truth |-> <<>>, type |-> "element_id",
              called |-> FALSE, score |-> Zero]

Init ==
  /\ config \in Configs
  /\ tasks \in DistinctSeqs(TaskPool, MaxList)
  /\ Combinations(config, tasks) <= MaxTrials
  /\ pc = "start"
  /\ pos = [p |-> 1, m |-> 1, f |-> 1, t |-> 1, r |-> 0]
  /\ results = <<>>
  /\ inFlight = 0
  /\ dispatched = 0
  /\ pauses = 0
  /\ log = <<>>
  /\ stats = NoStats
  /\ prevStats = NoStats
  /\ aggCalls = 0
  /\ resultsBefore = <<>>
  /\ sc = IdleScore

\* ------------------------------------------------------ the run() loop
\* A variant with the format loop outside the model loop.
NextPosFormatOutside(q) ==
  IF q.r + 1 < runs THEN [ended |-> FALSE, pos |-> [q EXCEPT !.r = q.r + 1]]
  ELSE IF q.t < Len(tasks)
  THEN [ended |-> FALSE, pos |-> [q EXCEPT !.t = q.t + 1, !.r = 0]]
  ELSE IF q.m < Len(models)
  THEN [ended |-> FALSE, pos |-> [q EXCEPT !.m = q.m + 1, !.t = 1, !.r = 0]]
  ELSE IF q.f < Len(formats)
  THEN [ended |-> FALSE,
        pos |-> [q EXCEPT !.f = q.f + 1, !.m = 1, !.t = 1, !.r = 0]]
  ELSE IF q.p < Len(pages)
  THEN [ended |-> FALSE,
        pos |-> [p |-> q.p + 1, m |-> 1, f |-> 1, t |-> 1, r |-> 0]]
  ELSE [ended |-> TRUE, pos |-> q]

\* The loop variables after the innermost loop's r++ and the outer loops'
\* steps that follow from it; ended when the outermost loop is exhausted.
NextPos(q) ==
  IF q.r + 1 < runs THEN [ended |-> FALSE, pos |-> [q EXCEPT !.r = q.r + 1]]
  ELSE IF q.t < Len(tasks)
  THEN [ended |-> FALSE, pos |-> [q EXCEPT !.t = q.t + 1, !.r = 0]]
  ELSE IF q.f < Len(formats)
  THEN [ended |-> FALSE, pos |-> [q EXCEPT !.f = q.f + 1, !.t = 1, !.r = 0]]
  ELSE IF q.m < Len(models)
  THEN [ended |-> FALSE,
        pos |-> [q EXCEPT !.m = q.m + 1, !.f = 1, !.t = 1, !.r = 0]]
  ELSE IF q.p < Len(pages)
  THEN [ended |-> FALSE,
        pos |-> [p |-> q.p + 1, m |-> 1, f |-> 1, t |-> 1, r |-> 0]]
  ELSE [ended |-> TRUE, pos |-> q]

\* run() up to the first loop body: with an empty list, or runs below 1, no
\* body is ever entered and run() returns.
RunStart ==
  /\ pc = "start"
  /\ pc' = IF Len(pages) = 0 \/ Len(models) = 0 \/ Len(formats) = 0
              \/ Len(tasks) = 0 \/ runs < 1
           THEN "done" ELSE "loop"
  /\ UNCHANGED <<config, tasks, pos, results, inFlight, dispatched, pauses,
                 log, stats, prevStats, aggCalls, resultsBefore, sc>>

\* queryModel (lines 61-101) from the provider's outcome on.
queryModel(modelKey, outcome) ==
  LET provider == MODELS[modelKey]
  IN  IF outcome.kind = "return"
      THEN [response |-> [null |-> ~outcome.hasText, text |-> outcome.text],
            tokens |-> IF provider = "openai" THEN outcome.total
                       ELSE outcome.input + outcome.output,
            latency |-> outcome.ms,
            error |-> [null |-> TRUE, message |-> ""]]
      ELSE [response |-> [null |-> TRUE, text |-> <<>>],
            tokens |-> 0,
            latency |-> outcome.ms,
            error |-> [null |-> FALSE, message |-> outcome.message]]

\* if (error): null and the empty string are falsy.
Truthy(error) == ~error.null /\ error.message # ""

\* runSingleTest (lines 149-175) from the provider's outcome on: the record it
\* returns, or threw when parseResponse is handed a null reply text.
runSingleTest(modelKey, format, pageId, task, groundTruth, outcome) ==
  LET reply == queryModel(modelKey, outcome)
  IN  IF Truthy(reply.error)
      THEN [threw |-> FALSE,
            value |-> [model |-> modelKey, format |-> format, pageId |-> pageId,
                       taskId |-> task.id, error |-> reply.error.message,
                       score |-> Zero]]
      ELSE IF reply.response.null
      THEN [threw |-> TRUE, value |-> <<>>]
      ELSE LET parsed == parseResponse(reply.response.text)
               truthEntry == groundTruth[task.id]
           IN  [threw |-> FALSE,
                value |-> [model |-> modelKey, format |-> format,
                           pageId |-> pageId, taskId |-> task.id,
                           response |-> parsed.answer,
                           confidence |-> parsed.confidence,
                           evidence |-> parsed.evidence,
                           expected |-> truthEntry.answer,
                           score |-> scoreResponse(parsed.answer,
                                       truthEntry.answer, task.scoring),
                           tokens |-> reply.tokens,
                           latency |-> reply.latency]]

\* The loop body up to the provider call (lines 198-200, 150-152, 62-69):
\* destructuring MODELS[modelKey] throws for an unknown identifier before the
\* request is issued.
BeginTrial ==
  /\ pc = "loop"
  /\ IF models[pos.m] \in DOMAIN MODELS
     THEN /\ pc' = "inflight"
          /\ inFlight' = inFlight + 1
          /\ dispatched' = dispatched + 1
     ELSE /\ pc' = "aborted"
          /\ UNCHANGED <<inFlight, dispatched>>
  /\ UNCHANGED <<config, tasks, pos, results, pauses, log, stats, prevStats,
                 aggCalls, resultsBefore, sc>>

\* A variant that pauses only after a successful trial.
AfterPushNoPauseOnError(result) ==
  IF "error" \in DOMAIN result
  THEN LET nx == NextPos(pos)
       IN  [pc |-> IF nx.ended THEN "done" ELSE "loop", pos |-> nx.pos]
  ELSE [pc |-> "pause", pos |-> pos]

\* After the push run() awaits the 200 ms timer, whatever the record holds
\* (line 205); the loop variables step only when it has fired.
AfterPush(result) == [pc |-> "pause", pos |-> pos]

\* The provider call settles; the rest of runSingleTest runs, and run() sets
\* result.run, pushes the record and starts the pause (lines 200-205).
CompleteTrial ==
  /\ pc = "inflight"
  /\ \E outcome \in ProviderOutcomes :
       LET res == runSingleTest(models[pos.m], formats[pos.f], pages[pos.p],
                                tasks[pos.t], GroundTruth(pages[pos.p]), outcome)
       IN  /\ log' = Append(log, outcome)
           /\ inFlight' = inFlight - 1
           /\ IF res.threw
              THEN /\ pc' = "aborted"
                   /\ UNCHANGED <<results, pos>>
              ELSE LET result == res.value @@ [run |-> pos.r + 1]
                   IN  /\ results' = Append(results, result)
                       /\ pc' = AfterPush(result).pc
                       /\ pos' = AfterPush(result).pos
  /\ UNCHANGED <<config, tasks, dispatched, pauses, stats, prevStats,
                 aggCalls, resultsBefore, sc>>

\* The 200 ms timer fires; the loops step (lines 205, 197-191).
PauseElapsed ==
  /\ pc = "pause"
  /\ pauses' = pauses + 1
  /\ LET nx == NextPos(pos)
     IN  /\ pos' = nx.pos
         /\ pc' = IF nx.ended THEN "done" ELSE "loop"
  /\ UNCHANGED <<config, tasks, results, inFlight, dispatched, log, stats,
                 prevStats, aggCalls, resultsBefore, sc>>

\* ---------------------------------------------------------- aggregate
\* r.tokens, r.latency as an operand of +: a missing field is undefined, and
\* a number plus undefined is NaN.
FieldNum(r, f) == IF f \in DOMAIN r THEN Rat(r[f], 1) ELSE NaN

\* The keys of agg in insertion order (lines 218-222): the (model, format)
\* pairs in the order of their first record.
RECURSIVE GroupKeys(_)
GroupKeys(rs) ==
  IF rs = <<>> THEN <<>>
  ELSE LET front == GroupKeys(SubSeq(rs, 1, Len(rs) - 1))
           key == <<rs[Len(rs)].model, rs[Len(rs)].format>>
       IN  IF \E i \in 1..Len(front) : front[i] = key THEN front
           ELSE Append(front, key)

\* array.reduce((a, b) => a + b, 0) over the group's values of a field.
RECURSIVE SumField(_, _, _)
SumField(rs, key, f) ==
  IF rs = <<>> THEN Zero
  ELSE LET r == rs[Len(rs)]
           rest == SumField(SubSeq(rs, 1, Len(rs) - 1), key, f)
       IN  IF <<r.model, r.format>> = key
           THEN RatAdd(rest, IF f = "score" THEN r.score ELSE FieldNum(r, f))
           ELSE rest

GroupSize(rs, key) ==
  Cardinality({i \in 1..Len(rs) : <<rs[i].model, rs[i].format>> = key})

\* Math.round: the nearest integer, halves up; NaN stays NaN.
MathRound(x) == IF IsNaN(x) THEN NaN ELSE Rat((2 * x.n + x.d) \div (2 * x.d), 1)

\* x.toFixed(1) + '%' for x >= 0: the digits before the point, the point, one
\* digit after it, and the suffix.
ToFixed1Percent(x) ==
  LET tenths == (20 * x.n + x.d) \div (2 * x.d)
  IN  <<tenths \div 10, ".", tenths % 10, "%">>

\* parseFloat of such a string: the number in front of the suffix.
ParseFloatPercent(str) == Rat(str[1] * 10 + str[3], 10)

\* One row of stats (lines 231-237).
StatRow(rs, key) ==
  LET n == Rat(GroupSize(rs, key), 1)
  IN  [model |-> key[1],
       format |-> key[2],
       accuracy |-> ToFixed1Percent(
                      RatMul(RatQuot(SumField(rs, key, "score"), n), Rat(100, 1))),
       avg_tokens |-> MathRound(RatQuot(SumField(rs, key, "tokens"), n)),
       avg_latency |-> <<MathRound(RatQuot(SumField(rs, key, "latency"), n)), "ms">>]

\* A variant that compares a to b: ascending.
CompareStatsAscending(a, b) ==
  LET x == ParseFloatPercent(a.accuracy)
      y == ParseFloatPercent(b.accuracy)
  IN  x.n * y.d - y.n * x.d

\* The comparator of the sort (line 240): negative puts a first.
CompareStats(a, b) ==
  LET x == ParseFloatPercent(b.accuracy)
      y == ParseFloatPercent(a.accuracy)
  IN  x.n * y.d - y.n * x.d

\* Array.prototype.sort: stable.
RECURSIVE InsertRow(_, _)
InsertRow(sorted, x) ==
  IF sorted # <<>> /\ CompareStats(sorted[Len(sorted)], x) > 0
  THEN Append(InsertRow(SubSeq(sorted, 1, Len(sorted) - 1), x), sorted[Len(sorted)])
  ELSE Append(sorted, x)

RECURSIVE SortRows(_)
SortRows(rows) ==
  IF rows = <<>> THEN <<>>
  ELSE InsertRow(SortRows(SubSeq(rows, 1, Len(rows) - 1)), rows[Len(rows)])

aggregate(rs) ==
  LET keys == GroupKeys(rs)
  IN  SortRows([i \in 1..Len(keys) |-> StatRow(rs, keys[i])])

\* saveResults calls aggregate() once run() has resolved (line 273); the
\* method may be called again.
Aggregate ==
  /\ pc = "done"
  /\ aggCalls < MaxAggCalls
  /\ resultsBefore' = results
  /\ prevStats' = stats
  /\ stats' = aggregate(results)
  /\ aggCalls' = aggCalls + 1
  /\ UNCHANGED <<config, tasks, pc, pos, results, inFlight, dispatched, pauses,
                 log, sc>>

Next == RunStart \/ BeginTrial \/ CompleteTrial \/ PauseElapsed \/ Aggregate

Spec == Init /\ [][Next]_vars

\* ------------------------------------------- the scoring harness
\* One call of scoreResponse on each answer, ground truth and scoring type.
InitScore ==
  /\ sc \in [answer : StringsUpTo(MaxStrLen), truth : {<<>>},
             type : ScoringTypes, called : {FALSE}, score : {Zero}]
  /\ config = [pages |-> Undefined, models |-> Undefined, formats |-> Undefined,
               runs |-> UndefinedRuns]
  /\ tasks = <<>>
  /\ pc = "idle"
  /\ pos = [p |-> 1, m |-> 1, f |-> 1, t |-> 1, r |-> 0]
  /\ results = <<>>
  /\ inFlight = 0
  /\ dispatched = 0
  /\ pauses = 0
  /\ log = <<>>
  /\ stats = NoStats
  /\ prevStats = NoStats
  /\ aggCalls = 0
  /\ resultsBefore = <<>>

ScoreCall ==
  /\ ~sc.called
  /\ \E truth \in StringsUpTo(MaxStrLen) :
       sc' = [sc EXCEPT !.truth = truth, !.called = TRUE,
                        !.score = scoreResponse(sc.answer, truth, sc.type)]
  /\ UNCHANGED runVars

NextScore == ScoreCall

SpecScore == InitScore /\ [][NextScore]_vars

\* ------------------------------------------------------- properties
AllModelsKnown == \A i \in 1..Len(models) : models[i] \in DOMAIN MODELS

\* The repetition count the configuration gives (3 when it gives none).
ConfiguredRuns == IF config.runs.defined THEN config.runs.value ELSE DefaultRuns

\* The (model, format, page, task, run) tuple of a record.
TupleOf(r) == <<r.model, r.format, r.pageId, r.taskId, r.run>>

CrossProduct ==
  {<<models[m], formats[f], pages[p], tasks[t].id, n>> :
     m \in 1..Len(models), f \in 1..Len(formats), p \in 1..Len(pages),
     t \in 1..Len(tasks), n \in 1..ConfiguredRuns}

IndexIn(seq, x) == CHOOSE i \in 1..Len(seq) : seq[i] = x
TaskIndex(id) == CHOOSE i \in 1..Len(tasks) : tasks[i].id = id

\* The position tuple of a record, in nesting order: page, model, format,
\* task, run.
PositionOf(r) ==
  <<IndexIn(pages, r.pageId), IndexIn(models, r.model),
    IndexIn(formats, r.format), TaskIndex(r.taskId), r.run>>

LexLess(a, b) ==
  \E k \in 1..5 : a[k] < b[k] /\ \A h \in 1..(k - 1) : a[h] = b[h]

\* C1: with every configured model known, run() ends with exactly
\* P*M*F*T*R records whose (model, format, page, task, run) tuples are
\* pairwise distinct and cover the cross product, whatever the provider did.
C1_Complete ==
  (AllModelsKnown /\ pc \in {"done", "aborted"}) =>
    /\ pc = "done"
    /\ Len(results) = Len(pages) * Len(models) * Len(formats) * Len(tasks)
                        * ConfiguredRuns
    /\ \A i, j \in 1..Len(results) :
         i # j => TupleOf(results[i]) # TupleOf(results[j])
    /\ {TupleOf(results[i]) : i \in 1..Len(results)} = CrossProduct

\* C2: with every configured model known, a provider call that raised leaves a record with score 0 and a
\* non-empty error and no parsed field, the run goes on, and the records of
\* the calls that returned carry no error and the score of their own reply.
C2_ErrorContained ==
  AllModelsKnown => \A i \in 1..Len(log) :
    IF log[i].kind = "throw"
    THEN /\ pc # "aborted"
         /\ Len(results) >= i
         /\ "error" \in DOMAIN results[i]
         /\ results[i].error # ""
         /\ results[i].score = Zero
         /\ "response" \notin DOMAIN results[i]
    ELSE i <= Len(results) =>
           /\ "error" \notin DOMAIN results[i]
           /\ results[i].score =
                scoreResponse(parseResponse(log[i].text).answer,
                              results[i].expected,
                              tasks[TaskIndex(results[i].taskId)].scoring)

\* C3: a model list that holds an unknown identifier, at any position, makes
\* the run abort before any provider request has been issued.
C3_UnknownModelAborts ==
  (~AllModelsKnown /\ Combinations(config, tasks) > 0) =>
    /\ dispatched = 0
    /\ pc # "done"

\* C4: with every configured model known no error escapes run(): each
\* settled provider call has its record and the loop goes on.
C4_NoErrorEscapes ==
  AllModelsKnown =>
    /\ pc # "aborted"
    /\ pc \in {"pause", "loop", "done"} => Len(results) = Len(log)

\* C5: at every point of a run, of two records the one with the smaller
\* position tuple (page, model, format, task, run) comes earlier in results.
C5_NestingOrder ==
  \A i, j \in 1..Len(results) :
    LexLess(PositionOf(results[i]), PositionOf(results[j])) => i < j

C5_Witness ==
  /\ Len(results) = 4
  /\ results[1].model # results[4].model
  /\ results[1].format # results[4].format

\* C6: at most one provider request is in flight, and a request is issued
\* only when every earlier one has settled, has its record in results and
\* has had its pause, failed ones included.
C6_OneAtATime ==
  /\ inFlight \in {0, 1}
  /\ pc = "inflight" =>
       /\ inFlight = 1
       /\ Len(log) = dispatched - 1
       /\ Len(results) = dispatched - 1
       /\ pauses = dispatched - 1
  /\ pc \in {"loop", "done"} =>
       /\ inFlight = 0
       /\ Len(results) = dispatched
       /\ pauses = dispatched

C6_Witness ==
  /\ pc = "inflight"
  /\ dispatched = 3
  /\ "error" \in DOMAIN results[2]

\* The string between the first and the last non-space character, in lower
\* case.
FoldedTrimmed(s) ==
  LET idx == {i \in 1..Len(s) : s[i] # " "}
  IN  IF idx = {} THEN <<>>
      ELSE LET lo == CHOOSE i \in idx : \A j \in idx : i <= j
               hi == CHOOSE i \in idx : \A j \in idx : j <= i
           IN  [i \in 1..(hi - lo + 1) |-> LowerChar(s[lo + i - 1])]

Contains(s, t) ==
  t = <<>> \/ \E i, j \in 1..Len(s) : i <= j /\ SubSeq(s, i, j) = t

\* The comma-separated tokens of a folded, trimmed string, trimmed.
TokenSet(s) == {Trim(x) : x \in SetOf(Split(FoldedTrimmed(s), ","))}

\* C7: under precision_recall the score is 0 when the answer or the ground
\* truth is empty, and otherwise the F1 of precision and recall over the
\* token sets.
C7_PrecisionRecall ==
  (sc.called /\ sc.type = "precision_recall") =>
    IF FoldedTrimmed(sc.answer) = <<>> \/ FoldedTrimmed(sc.truth) = <<>>
    THEN sc.score = Zero
    ELSE LET P == TokenSet(sc.answer)
             T == TokenSet(sc.truth)
         IN  sc.score = Rat(2 * Cardinality(P \cap T),
                            Cardinality(P) + Cardinality(T))

\* C8: under element_id and under an unrecognized or missing tag the score
\* is 1 when the folded, trimmed strings are equal and 0 otherwise; under
\* text_match it is 1 when equal, else 0.5 when one contains the other, else
\* 0; under every tag the score lies in [0, 1].
C8_ExactAndTextMatch ==
  sc.called =>
    LET a == FoldedTrimmed(sc.answer)
        t == FoldedTrimmed(sc.truth)
    IN  /\ sc.type \in {"element_id", "other", "undefined"} =>
             sc.score = IF a = t THEN One ELSE Zero
        /\ sc.type = "text_match" =>
             sc.score = IF a = t THEN One
                        ELSE IF Contains(a, t) \/ Contains(t, a) THEN Half
                        ELSE Zero
        /\ ~IsNaN(sc.score) /\ RatLeq(Zero, sc.score) /\ RatLeq(sc.score, One)

C8_Witness ==
  /\ sc.called
  /\ sc.type = "text_match"
  /\ sc.score = Half
  /\ sc.answer = <<" ", "A">>
  /\ sc.truth = <<"a", ",", "a">>

\* The indices of the records of a (model, format) pair.
GroupOf(key) ==
  {i \in 1..Len(results) : <<results[i].model, results[i].format>> = key}

\* The ProviderReply of the i-th request.
ReplyOf(i) == queryModel(results[i].model, log[i])

RECURSIVE SumReplies(_, _)
SumReplies(I, f) ==
  IF I = {} THEN 0
  ELSE LET i == CHOOSE x \in I : TRUE
       IN  ReplyOf(i)[f] + SumReplies(I \ {i}, f)

RoundedMean(total, n) == (2 * total + n) \div (2 * n)

\* C9: aggregate() returns one row per distinct (model, format) pair, and
\* the row's mean token count and mean latency are the rounded means over
\* the group's records, an error trial counting with the zero tokens and the
\* measured latency of its ProviderReply.
C9_AggregateMeans ==
  aggCalls >= 1 =>
    /\ \A i \in 1..Len(results) :
         \E k \in 1..Len(stats) :
           <<stats[k].model, stats[k].format>> = <<results[i].model, results[i].format>>
    /\ \A k, h \in 1..Len(stats) :
         k # h => <<stats[k].model, stats[k].format>> # <<stats[h].model, stats[h].format>>
    /\ \A k \in 1..Len(stats) :
         LET G == GroupOf(<<stats[k].model, stats[k].format>>)
         IN  /\ G # {}
             /\ stats[k].avg_tokens =
                  Rat(RoundedMean(SumReplies(G, "tokens"), Cardinality(G)), 1)
             /\ stats[k].avg_latency =
                  <<Rat(RoundedMean(SumReplies(G, "latency"), Cardinality(G)), 1), "ms">>

====
